---- MODULE Spec2Model ----
(***************************************************************************)
(* Model of data_preparation/dataset_builder.py: DatasetBuilder.           *)
(*                                                                         *)
(* File names are sequences of one-character strings so that the regular   *)
(* expression of _parse_root_id_and_session, str.upper, os.path.splitext   *)
(* and the f-string that builds the recording name are computed character  *)
(* by character.  A waveform is represented by its number of samples.      *)
(***************************************************************************)
EXTENDS Integers, Sequences, FiniteSets, TLC

(* ------------------------------ bounds --------------------------------- *)
\* entries returned by os.listdir(eaf_dir)
MaxFiles == 2
\* annotations accumulated over the whole run
MaxRecords == 2

(* --------------------------- Python values ----------------------------- *)
\* None where a str is expected (root_id, session)
Null == <<>>
\* None where a number or a list of samples is expected
NoneVal == -1
\* str(None), as produced by an f-string
NoneStr == <<"N", "o", "n", "e">>

Max(S) == CHOOSE x \in S : \A y \in S : y <= x
MinOf(S) == CHOOSE x \in S : \A y \in S : x <= y

(* ----------------------------- characters ------------------------------ *)
LowerSeq == <<"a", "b", "c", "d", "e", "f", "g", "h", "i", "j", "k", "l", "m",
              "n", "o", "p", "q", "r", "s", "t", "u", "v", "w", "x", "y", "z">>
UpperSeq == <<"A", "B", "C", "D", "E", "F", "G", "H", "I", "J", "K", "L", "M",
              "N", "O", "P", "Q", "R", "S", "T", "U", "V", "W", "X", "Y", "Z">>
Digits == {"0", "1", "2", "3", "4", "5", "6", "7", "8", "9"}

LowerLetters == {LowerSeq[i] : i \in 1..26}
UpperLetters == {UpperSeq[i] : i \in 1..26}

\* [a-zA-Z]
IsLetter(c) == c \in LowerLetters \/ c \in UpperLetters
\* \d
IsDigit(c) == c \in Digits
\* str.upper on one character
UpperChar(c) == IF c \in LowerLetters
                THEN UpperSeq[CHOOSE i \in 1..26 : c = LowerSeq[i]]
                ELSE c
\* str.upper
Upper(s) == [i \in 1..Len(s) |-> UpperChar(s[i])]

\* last index of the greedy run [a-zA-Z]* that starts at index i (i-1: empty)
LetterRunEnd(s, i) ==
    LET stops == {j \in i..Len(s) : ~IsLetter(s[j])}
    IN  IF stops = {} THEN Len(s) ELSE MinOf(stops) - 1
\* last index of the greedy run \d* that starts at index i (i-1: empty)
DigitRunEnd(s, i) ==
    LET stops == {j \in i..Len(s) : ~IsDigit(s[j])}
    IN  IF stops = {} THEN Len(s) ELSE MinOf(stops) - 1

(* ----------------- _parse_root_id_and_session (22-35) ------------------ *)
\* index of the last character of group 1, ([a-zA-Z]+-\d+), matched from the
\* first character of s; 0 when the group does not match
Group1End(s) ==
    LET a == LetterRunEnd(s, 1)
        d == DigitRunEnd(s, a + 2)
    IN  IF a >= 1 /\ a + 1 <= Len(s) /\ s[a + 1] = "-" /\ d >= a + 2
        THEN d ELSE 0

\* re.match(pattern, filename, re.IGNORECASE): index of the last character
\* consumed by the match, 0 when there is no match.  re.match anchors the
\* pattern at the first character only.
MatchEnd(s) ==
    LET d == Group1End(s)
    IN  IF /\ d > 0
           /\ d + 6 <= Len(s)
           /\ s[d + 1] = "-"
           /\ IsDigit(s[d + 2])
           /\ s[d + 3] = "."
           /\ UpperChar(s[d + 4]) = "E"
           /\ UpperChar(s[d + 5]) = "A"
           /\ UpperChar(s[d + 6]) = "F"
        THEN d + 6 ELSE 0

\* the pair (root_id, session), (None, None) without a match
ParseRootIdAndSession(filename) ==
    LET d == Group1End(filename)
    IN  IF MatchEnd(filename) > 0
        THEN <<Upper(SubSeq(filename, 1, d)), <<filename[d + 2]>> >>
        ELSE <<Null, Null>>

(* ------------------------- build_dataset helpers ----------------------- *)
\* "{x}" inside an f-string
Str(x) == IF x = Null THEN NoneStr ELSE x

\* f"{root_id}-{session}.wav" (96)
WavFilename(root_id, session) ==
    Str(root_id) \o <<"-">> \o Str(session) \o <<".", "w", "a", "v">>

\* os.path.splitext(eaf_file)[0] (103): cut at the last dot, unless only
\* dots precede it
Splitext0(name) ==
    LET dots == {i \in 1..Len(name) : name[i] = "."}
    IN  IF dots /= {} /\ \E k \in 1..(Max(dots) - 1) : name[k] /= "."
        THEN SubSeq(name, 1, Max(dots) - 1)
        ELSE name

(* ----------------------------- recordings ------------------------------ *)
\* an entry of wav_dir: present or not, decodable or not, its native sample
\* rate and its length in milliseconds
NoRecording == [present |-> FALSE, corrupt |-> FALSE, rate |-> 0, ms |-> 0]
Corrupt == [present |-> TRUE, corrupt |-> TRUE, rate |-> 0, ms |-> 0]
Short8k == [present |-> TRUE, corrupt |-> FALSE, rate |-> 8000, ms |-> 1000]
Long16k == [present |-> TRUE, corrupt |-> FALSE, rate |-> 16000, ms |-> 2500]

(* ------------------- slice_and_process_audio (58-85) ------------------- *)
\* target_sampling_rate (62)
TargetSamplingRate == 16000
\* no file at a path
NoFile == 0

Min(a, b) == IF a <= b THEN a ELSE b

\* AudioSegment.from_wav(wav_path) raises on a missing or undecodable file (64)
SliceRaises(rec) == ~rec.present \/ rec.corrupt

\* len(audio[start_time:end_time]) in milliseconds: both ends are clamped to
\* the length of the recording (65)
SegmentMs(rec, start_time, end_time) ==
    LET s == Min(start_time, rec.ms)
        e == Min(end_time, rec.ms)
    IN  IF e > s THEN e - s ELSE 0

\* len(audio_data) after segment.export and librosa.load(seg_path, sr=None):
\* the samples of the exported range at the native rate (66-67)
LoadedSamples(rec, start_time, end_time) ==
    (SegmentMs(rec, start_time, end_time) * rec.rate) \div 1000

\* librosa.resample(audio_data, orig_sr, target_sr): ceil(n * target / orig)
Resample(n, orig_sr, target_sr) ==
    (n * target_sr + orig_sr - 1) \div orig_sr

\* the returned value: None for a zero-length signal (70-73), else the
\* samples at the target rate (76-85), given by their number
SliceWaveform(rec, start_time, end_time) ==
    LET n == LoadedSamples(rec, start_time, end_time)
    IN  IF n = 0 THEN NoneVal
        ELSE IF rec.rate /= TargetSamplingRate
             THEN Resample(n, rec.rate, TargetSamplingRate)
             ELSE n

\* faulty variant: the file is not rewritten at the target rate
SliceFileNativeRate(rec, start_time, end_time) ==
    IF (SegmentMs(rec, start_time, end_time) * rec.rate) \div 1000 = 0
    THEN 0
    ELSE rec.rate

\* the sample rate of the file left at seg_path on return, NoFile when it was
\* removed: export writes it at the native rate (66), os.remove deletes it
\* (72), sf.write rewrites it at the target rate (81)
SliceFile(rec, start_time, end_time) ==
    IF LoadedSamples(rec, start_time, end_time) = 0
    THEN NoFile
    ELSE TargetSamplingRate

(* ---------------------- train_test_split (131) ------------------------- *)
\* test_size as the fraction num/den
TestSizes == { [num |-> 1, den |-> 10], [num |-> 1, den |-> 2] }

\* n_test = ceil(test_size * n_samples)
NTest(n, t) == (t.num * n + t.den - 1) \div t.den
\* n_train = n_samples - n_test
NTrain(n, t) == n - NTest(n, t)
\* ValueError: the resulting train set will be empty
SplitRaises(n, t) == NTrain(n, t) = 0

\* the shuffles of 1..n the seeded generator may produce
Perms(n) == {p \in [1..n -> 1..n] : \A i, j \in 1..n : p[i] = p[j] => i = j}
\* the first n_test indices of the shuffle
TestIndices(p, n, t) == SubSeq(p, 1, NTest(n, t))
\* faulty variant: the train slice starts one index early
TrainIndicesOverlap(p, n, t) ==
    SubSeq(p, NTest(n, t), NTest(n, t) + NTrain(n, t) - 1)

\* the next n_train indices of the shuffle
TrainIndices(p, n, t) == SubSeq(p, NTest(n, t) + 1, NTest(n, t) + NTrain(n, t))
\* the elements of data at the given indices, in that order
Take(data_, ind) == [k \in 1..Len(ind) |-> data_[ind[k]]]

(* ------------------------------ inputs --------------------------------- *)
\* "ab-12-3.EAF"
EafMixedCase == <<"a", "b", "-", "1", "2", "-", "3", ".", "E", "A", "F">>
\* "ab-12-3.eaf.bak"
EafBackup == <<"a", "b", "-", "1", "2", "-", "3", ".", "e", "a", "f",
               ".", "b", "a", "k">>
\* "not-a-match.eaf"
EafNoMatch == <<"n", "o", "t", "-", "a", "-", "m", "a", "t", "c", "h",
                ".", "e", "a", "f">>
\* "ab-1-23.eaf"
EafTwoDigits == <<"a", "b", "-", "1", "-", "2", "3", ".", "e", "a", "f">>
\* the names an entry of eaf_dir may have
EafNames == {EafMixedCase, EafBackup, EafNoMatch, EafTwoDigits}

\* "AB-12-3.wav"
WavAB == <<"A", "B", "-", "1", "2", "-", "3", ".", "w", "a", "v">>
\* "None-None.wav"
WavNone == <<"N", "o", "n", "e", "-", "N", "o", "n", "e", ".", "w", "a", "v">>
\* the names an entry of wav_dir may have
WavNames == {WavAB, WavNone}
\* the contents of wav_dir
WavDirs == {w \in [WavNames -> {NoRecording, Corrupt, Short8k, Long16k}] :
               w[WavNone] \in {NoRecording, Long16k}}

\* the (start_time, end_time, text) annotations a "verbatim" tier may hold
SpanSet == { [start |-> 0,    end |-> 1000, text |-> "hello"],
             [start |-> 1000, end |-> 2500, text |-> "world"] }

SeqsUpTo(S, n) == UNION {[1..k -> S] : k \in 0..n}
\* os.listdir(eaf_dir): distinct names in an arbitrary order
Listings == {l \in SeqsUpTo(EafNames, MaxFiles) :
                \A i, j \in 1..Len(l) : l[i] = l[j] => i = j}

(* ------------------------------- state --------------------------------- *)
VARIABLES
    eafList,      \* os.listdir(self.eaf_dir)
    wavDir,       \* the content of self.wav_dir: name -> recording
    test_size,    \* self.test_size
    pc,           \* "start", "file", "span", "done" or "raised"
    idx,          \* 1-based position in eafList of the current entry
    root_id,      \* locals of build_dataset
    session,
    annotations,  \* the annotations of the current file not yet sliced
    data,         \* the accumulated records
    segDirMade,   \* self.seg_dir exists
    segFolders,   \* the subfolders of seg_dir
    segFiles,     \* the segment files: set of [path, rate]
    log,          \* what was printed
    ind_train,    \* the partition computed by train_test_split
    ind_test,
    outFiles,     \* the files of output_dir: set of [name, content]
    extracted,    \* history: what parse_eaf_file returned, per parsed file
    result        \* the value returned by build_dataset

vars == <<eafList, wavDir, test_size, pc, idx, root_id, session, annotations,
          data, segDirMade, segFolders, segFiles, log, ind_train, ind_test,
          outFiles, extracted, result>>

inputs == <<eafList, wavDir, test_size>>

\* the recording stored under a name of wav_dir
Recording(wav_filename) ==
    IF wav_filename \in WavNames THEN wavDir[wav_filename] ELSE NoRecording

\* faulty variant: the existence test looks at wav_dir instead of wav_path
RecordingExistsDirOnly(wav_filename) == TRUE

\* os.path.exists(wav_path) (99)
RecordingExists(wav_filename) == Recording(wav_filename).present

\* os.path.join(seg_folder, f"{start_time}-{end_time}.wav") (108)
SegPath(seg_folder, start_time, end_time) ==
    [folder |-> seg_folder, start |-> start_time, end |-> end_time]

\* faulty variant: the segment folder is stored as the conversation id
RecordFolderAsId(seg_path, text, waveform, start_time, end_time, rid) ==
    [path            |-> seg_path,
     transcription   |-> text,
     waveform        |-> waveform,
     sampling_rate   |-> 16000,
     duration        |-> end_time - start_time,
     conversation_id |-> seg_path.folder]

\* the dictionary appended to data (110-117)
Record(seg_path, text, waveform, start_time, end_time, rid) ==
    [path            |-> seg_path,
     transcription   |-> text,
     waveform        |-> waveform,
     sampling_rate   |-> 16000,
     duration        |-> end_time - start_time,
     conversation_id |-> rid]

\* the segment files after seg_path was written at a rate, or removed
WriteFile(files, seg_path, rate) ==
    {f \in files : f.path /= seg_path}
        \cup (IF rate = NoFile THEN {} ELSE {[path |-> seg_path, rate |-> rate]})

\* the period of the progress message (121)
ProgressInterval == 10
\* print(f"{idx + 1} files built into dataset") (121-122); idx is 1-based here
Progress(i) ==
    IF i % ProgressInterval = 0
    THEN <<[kind |-> "progress", arg |-> Null]>> ELSE <<>>

\* the value build_dataset returns after writing both files: the function
\* ends at the print of line 134 without a return statement
PyNone == <<>>
BuildReturn(train_data, test_data) == PyNone

\* faulty variant: the emptiness test never succeeds
DatasetEmptyNever(d) == FALSE

\* len(data) == 0 (127)
DatasetEmpty(d) == Len(d) = 0
\* return None, None (129)
EmptyReturn == <<NoneVal, NoneVal>>

Init ==
    /\ eafList \in Listings
    /\ wavDir \in WavDirs
    /\ test_size \in TestSizes
    /\ pc = "start"
    /\ idx = 1
    /\ root_id = Null
    /\ session = Null
    /\ annotations = <<>>
    /\ data = <<>>
    /\ segDirMade = FALSE
    /\ segFolders = {}
    /\ segFiles = {}
    /\ log = <<>>
    /\ ind_train = <<>>
    /\ ind_test = <<>>
    /\ outFiles = {}
    /\ extracted = <<>>
    /\ result = PyNone

\* os.makedirs(self.seg_dir, exist_ok=True); data = [] (91-92)
Start ==
    /\ pc = "start"
    /\ segDirMade' = TRUE
    /\ data' = <<>>
    /\ pc' = "file"
    /\ UNCHANGED <<inputs, idx, root_id, session, annotations, segFolders,
                   segFiles, log, ind_train, ind_test, outFiles, extracted,
                   result>>

\* one entry of the listing up to the annotation loop (94-104), and to the
\* end of the iteration when the recording is not found (118-122)
NextFile ==
    /\ pc = "file"
    /\ idx <= Len(eafList)
    /\ LET eaf_file == eafList[idx]
           id == ParseRootIdAndSession(eaf_file)
           wav_filename == WavFilename(id[1], id[2])
           warned == IF id[1] = Null
                     THEN <<[kind |-> "warn_id", arg |-> eaf_file]>>
                     ELSE <<>>
       IN  /\ root_id' = id[1]
           /\ session' = id[2]
           /\ IF RecordingExists(wav_filename)
              THEN /\ \E anns \in SeqsUpTo(SpanSet, MaxRecords - Len(data)) :
                          /\ annotations' = anns
                          /\ extracted' = Append(extracted,
                                 [file |-> eaf_file, spans |-> anns])
                   /\ segFolders' = segFolders \cup {Splitext0(eaf_file)}
                   /\ log' = log \o warned
                   /\ pc' = "span"
                   /\ UNCHANGED idx
              ELSE /\ log' = log \o warned
                               \o <<[kind |-> "warn_wav", arg |-> wav_filename]>>
                               \o Progress(idx)
                   /\ idx' = idx + 1
                   /\ UNCHANGED <<annotations, segFolders, pc, extracted>>
    /\ UNCHANGED <<inputs, data, segDirMade, segFiles, ind_train, ind_test,
                   outFiles, result>>

\* one iteration of the annotation loop (107-117); an exception of the slicer
\* is not caught and ends build_dataset
ProcessSpan ==
    /\ pc = "span"
    /\ annotations /= <<>>
    /\ LET a == Head(annotations)
           rec == Recording(WavFilename(root_id, session))
           seg_path == SegPath(Splitext0(eafList[idx]), a.start, a.end)
       IN  IF SliceRaises(rec)
           THEN /\ pc' = "raised"
                /\ UNCHANGED <<annotations, data, segFiles, log>>
           ELSE /\ segFiles' = WriteFile(segFiles, seg_path,
                                         SliceFile(rec, a.start, a.end))
                /\ log' = log \o
                       (IF SliceWaveform(rec, a.start, a.end) = NoneVal
                        THEN <<[kind |-> "deleting", arg |-> Null]>> ELSE <<>>)
                /\ data' = Append(data,
                       Record(seg_path, a.text,
                              SliceWaveform(rec, a.start, a.end),
                              a.start, a.end, root_id))
                /\ annotations' = Tail(annotations)
                /\ UNCHANGED pc
    /\ UNCHANGED <<inputs, idx, root_id, session, segDirMade, segFolders,
                   ind_train, ind_test, outFiles, extracted, result>>

\* the end of an iteration whose recording was found (121-122)
EndFile ==
    /\ pc = "span"
    /\ annotations = <<>>
    /\ log' = log \o Progress(idx)
    /\ idx' = idx + 1
    /\ pc' = "file"
    /\ UNCHANGED <<inputs, root_id, session, annotations, data, segDirMade,
                   segFolders, segFiles, ind_train, ind_test, outFiles,
                   extracted, result>>

\* after the loop (124-134): the empty-dataset return, or the split and the
\* two writes; a ValueError of train_test_split is not caught
Finalize ==
    /\ pc = "file"
    /\ idx > Len(eafList)
    /\ IF DatasetEmpty(data)
       THEN /\ log' = Append(log, [kind |-> "error", arg |-> Null])
            /\ result' = EmptyReturn
            /\ pc' = "done"
            /\ UNCHANGED <<ind_train, ind_test, outFiles>>
       ELSE IF SplitRaises(Len(data), test_size)
       THEN /\ pc' = "raised"
            /\ UNCHANGED <<log, result, ind_train, ind_test, outFiles>>
       ELSE \E p \in Perms(Len(data)) :
            /\ ind_train' = TrainIndices(p, Len(data), test_size)
            /\ ind_test' = TestIndices(p, Len(data), test_size)
            /\ outFiles' = {[name |-> "train.json",
                             content |-> Take(data, ind_train')],
                            [name |-> "test.json",
                             content |-> Take(data, ind_test')]}
            /\ result' = BuildReturn(Take(data, ind_train'),
                                     Take(data, ind_test'))
            /\ pc' = "done"
            /\ UNCHANGED log
    /\ UNCHANGED <<inputs, idx, root_id, session, annotations, data,
                   segDirMade, segFolders, segFiles, extracted>>

Next == Start \/ NextFile \/ ProcessSpan \/ EndFile \/ Finalize

Spec == Init /\ [][Next]_vars

(* ============================ properties =============================== *)
\* the entry of the listing that NextFile is about to process
AtFile == pc = "file" /\ idx <= Len(eafList)
\* the annotation that ProcessSpan is about to slice
AtSpan == pc = "span" /\ annotations /= <<>>
\* the loop over eaf_dir has ended
LoopEnded == idx > Len(eafList)
\* build_dataset has returned or raised
Ended == pc \in {"done", "raised"}
\* the number of printed messages of a kind
Printed(kind) == Cardinality({k \in 1..Len(log) : log[k].kind = kind})
\* the names of the files written under output_dir
Written == {f.name : f \in outFiles}
\* the content of a file written under output_dir
Content(name) == (CHOOSE f \in outFiles : f.name = name).content
\* the whole filename matches ^([A-Za-z]+-\d+)-(\d)\.eaf$
FullMatch(f) == MatchEnd(f) > 0 /\ MatchEnd(f) = Len(f)
\* how many times x occurs in the sequence q
Occurrences(q, x) == Cardinality({k \in 1..Len(q) : q[k] = x})
\* l is a prefix of m
IsPrefix(l, m) == Len(l) <= Len(m) /\ SubSeq(m, 1, Len(l)) = l

\* C1: an entry whose identity is null is skipped: a warning is printed, no
\* record is appended, no annotation is extracted, no subfolder is created,
\* and the loop goes on to the next entry.
C1_NullIdentitySkipsFile ==
    [][ (AtFile /\ ParseRootIdAndSession(eafList[idx])[1] = Null)
        => /\ \E k \in (Len(log) + 1)..Len(log') : log'[k].kind = "warn_id"
           /\ data' = data
           /\ extracted' = extracted
           /\ segFolders' = segFolders
           /\ pc' = "file"
           /\ idx' = idx + 1 ]_vars

\* C2: an entry whose expected recording is absent from wav_dir prints a
\* warning and goes on to the next entry; the records, the segment files and
\* the segment folders are unchanged.
C2_MissingRecordingSkipsFile ==
    [][ (AtFile /\ ~Recording(WavFilename(ParseRootIdAndSession(eafList[idx])[1],
                                          ParseRootIdAndSession(eafList[idx])[2])).present)
        => /\ IsPrefix(log, log')
           /\ \E k \in (Len(log) + 1)..Len(log') : log'[k].kind = "warn_wav"
           /\ data' = data
           /\ segFiles' = segFiles
           /\ segFolders' = segFolders
           /\ pc' = "file"
           /\ idx' = idx + 1 ]_vars

\* a missing recording was reported after records were accumulated
C2_Witness ==
    /\ pc = "file"
    /\ Len(data) >= 1
    /\ Len(log) >= 1
    /\ log[Len(log)].kind = "warn_wav"

C4_NonEmptyDatasetWritesBothFiles ==
    (LoopEnded /\ Len(data) >= 1 /\ Ended)
        => pc = "done" /\ Written = {"train.json", "test.json"}

\* C5: the run returns (None, None) exactly in the empty-dataset case, and
\* otherwise the pair of the sizes of the two written partitions.
C5_ReturnsCountsOrNullPair ==
    pc = "done"
        => /\ (result = <<NoneVal, NoneVal>>) <=> (Len(data) = 0)
           /\ Len(data) >= 1
                 => result = <<Len(Content("train.json")),
                               Len(Content("test.json"))>>

\* C6: the written partitions split the dataset: every position of data is in
\* exactly one of the two index lists, the sizes add up to the number of
\* records, and each file holds the records at its indices.
C6_PartitionIntegrity ==
    (pc = "done" /\ Len(data) >= 1)
        => LET M == Len(data)
               tr == {ind_train[k] : k \in 1..Len(ind_train)}
               te == {ind_test[k] : k \in 1..Len(ind_test)}
           IN  /\ Len(ind_train) + Len(ind_test) = M
               /\ tr \cap te = {}
               /\ tr \cup te = 1..M
               /\ Written = {"train.json", "test.json"}
               /\ Content("train.json") = Take(data, ind_train)
               /\ Content("test.json") = Take(data, ind_test)
               /\ Len(Content("train.json")) + Len(Content("test.json")) = M
               /\ \A k \in 1..M :
                     Occurrences(Content("train.json"), data[k])
                        + Occurrences(Content("test.json"), data[k])
                     = Occurrences(data, data[k])

\* a dataset holding a record without waveform was partitioned and written
C6_Witness ==
    /\ pc = "done"
    /\ Len(data) >= 2
    /\ \E k \in 1..Len(data) : data[k].waveform = NoneVal
    /\ Len(ind_train) >= 1 /\ Len(ind_test) >= 1

\* C7: when the slicer returns, a range that decoded to zero samples gave None
\* and left no file at the segment path; any other range gave samples and left
\* at the segment path a file at 16000 Hz.
C7_SliceValidatedAndNormalised ==
    [][ (AtSpan /\ data' /= data)
        => LET a == Head(annotations)
               rec == Recording(WavFilename(root_id, session))
               r == data'[Len(data')]
               at == {f \in segFiles' : f.path = r.path}
           IN  IF SegmentMs(rec, a.start, a.end) * rec.rate < 1000
               THEN r.waveform = NoneVal /\ at = {}
               ELSE /\ r.waveform /= NoneVal
                    /\ r.waveform > 0
                    /\ at = {[path |-> r.path, rate |-> 16000]} ]_vars

\* a recording at 8000 Hz gave a resampled waveform and a discarded slice
C7_Witness ==
    /\ \E k \in 1..Len(data) : data[k].waveform = NoneVal
    /\ \E k \in 1..Len(data) : data[k].waveform = 16000
    /\ Recording(WavAB).rate = 8000
    /\ Cardinality(segFiles) = 1

\* C8: the resolver returns an identity exactly when the whole filename
\* matches the pattern; then root_id is the first group upper-cased and
\* session the single digit.
C8_ResolverMatchesWholeName ==
    [][ AtFile
        => LET f == eafList[idx]
           IN  /\ (root_id' /= Null /\ session' /= Null) <=> FullMatch(f)
               /\ (root_id' = Null /\ session' = Null) <=> ~FullMatch(f)
               /\ FullMatch(f)
                     => /\ root_id' = Upper(SubSeq(f, 1, Len(f) - 6))
                        /\ session' = <<f[Len(f) - 4]>> ]_vars

\* C9: an exception raised by the slicer for one annotation does not end the
\* run: the loop goes on with the next annotation and keeps the records.
C9_SlicerFailureSkipsSegmentOnly ==
    [][ (AtSpan /\ SliceRaises(Recording(WavFilename(root_id, session))))
        => /\ pc' = "span"
           /\ annotations' = Tail(annotations)
           /\ IsPrefix(data, data') ]_vars

\* the annotations extracted so far, each with the file it came from
RECURSIVE Flatten(_)
Flatten(ex) ==
    IF ex = <<>> THEN <<>>
    ELSE Flatten(SubSeq(ex, 1, Len(ex) - 1))
            \o [k \in 1..Len(ex[Len(ex)].spans) |->
                   [file |-> ex[Len(ex)].file, span |-> ex[Len(ex)].spans[k]]]
\* those of them that the annotation loop has gone through
Processed ==
    SubSeq(Flatten(extracted), 1, Len(Flatten(extracted)) - Len(annotations))

\* C10: data holds one record per annotation gone through, in extraction
\* order, with or without waveform; its duration is end - start as requested,
\* its path is made of the stem of the annotation file and start-end, and its
\* conversation_id is the root id resolved from the file name, upper-cased.
C10_OneRecordPerSpan ==
    LET proc == Processed
    IN  /\ Len(data) = Len(proc)
        /\ \A k \in 1..Len(data) :
              LET f == proc[k].file
                  a == proc[k].span
                  r == data[k]
              IN  /\ r.duration = a.end - a.start
                  /\ r.transcription = a.text
                  /\ r.path = [folder |-> Splitext0(f),
                               start |-> a.start, end |-> a.end]
                  /\ r.conversation_id = ParseRootIdAndSession(f)[1]
                  /\ MatchEnd(f) > 0
                        => r.conversation_id = Upper(SubSeq(f, 1, Group1End(f)))

\* two annotations of one file gave two records, one of them without waveform
C10_Witness ==
    /\ Len(data) = 2
    /\ data[1].waveform /= NoneVal
    /\ data[2].waveform = NoneVal
    /\ data[1].conversation_id = <<"A", "B", "-", "1", "2">>
    /\ data[1].duration = 1000 /\ data[2].duration = 1500
====
